---- MODULE Spec2Model ----
(***************************************************************************)
(* Amazon load-balancer trace header (X-Amzn-Trace-Id) propagation:        *)
(* MarshalAmazonTraceContext and UnmarshalAmazonTraceContext of            *)
(* propagation/amazon.go.                                                  *)
(*                                                                         *)
(* A Go string is a sequence of one-character strings.  A pointer that may *)
(* be nil is a sequence of length 0 (nil) or 1 (the pointee).  A value of  *)
(* type interface{} held in TraceContext is a record [t, s, n]: a string   *)
(* (t = "string", text s) or an int (t = "int", number n).                 *)
(***************************************************************************)
EXTENDS Integers, Sequences, FiniteSets, TLC

VARIABLES
    pc,         \* position of the caller: which call has returned
    segs,       \* the segments the inbound header is made of
    header,     \* the inbound header handed to UnmarshalAmazonTraceContext
    result,     \* what UnmarshalAmazonTraceContext(header) returned
    altSegs,    \* the segments of a second, related header
    altHeader,  \* the second header
    altResult,  \* what UnmarshalAmazonTraceContext(altHeader) returned
    prop,       \* the *PropagationContext handed to MarshalAmazonTraceContext
    wire,       \* what MarshalAmazonTraceContext(prop) returned
    back        \* what UnmarshalAmazonTraceContext(wire) returned

vars == <<pc, segs, header, result, altSegs, altHeader, altResult, prop, wire, back>>

(***************************************************************************)
(* Bounds of the model.                                                    *)
(***************************************************************************)
MaxSegs == 4
MaxAltSegs == 3
MaxEntries == 2

(***************************************************************************)
(* strings: ToLower, Split, SplitN, Join, Sprintf's %v                     *)
(***************************************************************************)
UpperChars == <<"A","B","C","D","E","F","G","H","I","J","K","L","M","N","O","P","Q","R","S","T","U","V","W","X","Y","Z">>
LowerChars == <<"a","b","c","d","e","f","g","h","i","j","k","l","m","n","o","p","q","r","s","t","u","v","w","x","y","z">>
DigitChars == <<"0","1","2","3","4","5","6","7","8","9">>

ToLowerChar(c) ==
    IF \E i \in 1..Len(UpperChars) : UpperChars[i] = c
    THEN LowerChars[CHOOSE i \in 1..Len(UpperChars) : UpperChars[i] = c]
    ELSE c

ToUpperChar(c) ==
    IF \E i \in 1..Len(LowerChars) : LowerChars[i] = c
    THEN UpperChars[CHOOSE i \in 1..Len(LowerChars) : LowerChars[i] = c]
    ELSE c

RECURSIVE ToLower(_)
ToLower(s) == IF s = <<>> THEN <<>> ELSE <<ToLowerChar(Head(s))>> \o ToLower(Tail(s))

RECURSIVE ToUpper(_)
ToUpper(s) == IF s = <<>> THEN <<>> ELSE <<ToUpperChar(Head(s))>> \o ToUpper(Tail(s))

\* strings.Index(s, c) + 1 for a one-character c: 0 when c does not occur
Index(s, c) ==
    IF \E i \in 1..Len(s) : s[i] = c
    THEN CHOOSE i \in 1..Len(s) : s[i] = c /\ \A j \in 1..(i - 1) : s[j] # c
    ELSE 0

\* strings.Split(s, sep) for a one-character sep: always at least one piece
RECURSIVE Split(_, _)
Split(s, sep) ==
    LET i == Index(s, sep)
    IN  IF i = 0 THEN <<s>>
        ELSE <<SubSeq(s, 1, i - 1)>> \o Split(SubSeq(s, i + 1, Len(s)), sep)

\* SplitN2 cutting at the last sep
SplitN2_Last(s, sep) ==
    IF \E i \in 1..Len(s) : s[i] = sep
    THEN LET i == CHOOSE i \in 1..Len(s) : s[i] = sep /\ \A j \in (i + 1)..Len(s) : s[j] # sep
         IN  <<SubSeq(s, 1, i - 1), SubSeq(s, i + 1, Len(s))>>
    ELSE <<s>>

\* strings.SplitN(s, sep, 2): cut at the first sep only
SplitN2(s, sep) ==
    LET i == Index(s, sep)
    IN  IF i = 0 THEN <<s>>
        ELSE <<SubSeq(s, 1, i - 1), SubSeq(s, i + 1, Len(s))>>

\* strings.Join(elems, sep)
RECURSIVE Join(_, _)
Join(elems, sep) ==
    IF elems = <<>> THEN <<>>
    ELSE IF Len(elems) = 1 THEN elems[1]
    ELSE elems[1] \o sep \o Join(Tail(elems), sep)

\* strconv.Itoa as %v prints an int
RECURSIVE Itoa(_)
Itoa(n) ==
    IF n < 0 THEN <<"-">> \o Itoa(0 - n)
    ELSE IF n < 10 THEN <<DigitChars[n + 1]>>
    ELSE Itoa(n \div 10) \o <<DigitChars[(n % 10) + 1]>>

StringValue(s) == [t |-> "string", s |-> s, n |-> 0]
IntValue(n) == [t |-> "int", s |-> <<>>, n |-> n]

\* fmt's %v of an interface{} value
FormatV(v) == IF v.t = "string" THEN v.s ELSE Itoa(v.n)

(***************************************************************************)
(* PropagationContext and PropagationError                                 *)
(***************************************************************************)
EmptyMap == [k \in {} |-> StringValue(<<>>)]

MapPut(m, k, v) == [x \in (DOMAIN m) \cup {k} |-> IF x = k THEN v ELSE m[x]]

IsValid(p) == p.TraceID # <<>> /\ p.ParentID # <<>>

ErrPrefix == <<"u","n","a","b","l","e"," ","t","o"," ","p","a","r","s","e"," ","h","e","a","d","e","r"," ","i","n","t","o"," ","p","r","o","p","a","g","a","t","i","o","n","c","o","n","t","e","x","t",":"," ">>

PropagationError(message) == [message |-> message, cause |-> <<>>]

(***************************************************************************)
(* UnmarshalAmazonTraceContext                                             *)
(***************************************************************************)
KeySelf == <<"s","e","l","f">>
KeyRoot == <<"r","o","o","t">>
KeyParent == <<"p","a","r","e","n","t">>
KeyGrandParent == <<"g","r","a","n","d","p","a","r","e","n","t">>

\* prop and the locals parent, grandParent before the loop
ScanStart ==
    [TraceID |-> <<>>, ParentID |-> <<>>, GrandParentID |-> <<>>,
     TraceContext |-> EmptyMap, parent |-> <<>>, grandParent |-> <<>>]

\* ScanSegment with a Root that an empty value does not overwrite
ScanSegment_KeepsRoot(st, segment) ==
    LET keyval == SplitN2(segment, "=")
    IN  IF Len(keyval) < 2 THEN st
        ELSE LET key == ToLower(keyval[1])
             IN  IF key = KeySelf THEN [st EXCEPT !.ParentID = keyval[2]]
                 ELSE IF key = KeyRoot
                      THEN (IF keyval[2] = <<>> THEN st ELSE [st EXCEPT !.TraceID = keyval[2]])
                 ELSE IF key = KeyParent THEN [st EXCEPT !.parent = keyval[2]]
                 ELSE IF key = KeyGrandParent THEN [st EXCEPT !.grandParent = keyval[2]]
                 ELSE [st EXCEPT !.TraceContext =
                                    MapPut(st.TraceContext, keyval[1], StringValue(keyval[2]))]

\* ScanSegment without the skip: a segment with no "=" is a key with an empty value
ScanSegment_NoSkip(st, segment) ==
    LET cut == SplitN2(segment, "=")
        keyval == IF Len(cut) < 2 THEN <<cut[1], <<>>>> ELSE cut
        key == ToLower(keyval[1])
    IN  IF key = KeySelf THEN [st EXCEPT !.ParentID = keyval[2]]
        ELSE IF key = KeyRoot THEN [st EXCEPT !.TraceID = keyval[2]]
        ELSE IF key = KeyParent THEN [st EXCEPT !.parent = keyval[2]]
        ELSE IF key = KeyGrandParent THEN [st EXCEPT !.grandParent = keyval[2]]
        ELSE [st EXCEPT !.TraceContext =
                           MapPut(st.TraceContext, keyval[1], StringValue(keyval[2]))]

\* ScanSegment storing an extension field under its lower-cased key
ScanSegment_LowerKey(st, segment) ==
    LET keyval == SplitN2(segment, "=")
    IN  IF Len(keyval) < 2 THEN st
        ELSE LET key == ToLower(keyval[1])
             IN  IF key = KeySelf THEN [st EXCEPT !.ParentID = keyval[2]]
                 ELSE IF key = KeyRoot THEN [st EXCEPT !.TraceID = keyval[2]]
                 ELSE IF key = KeyParent THEN [st EXCEPT !.parent = keyval[2]]
                 ELSE IF key = KeyGrandParent THEN [st EXCEPT !.grandParent = keyval[2]]
                 ELSE [st EXCEPT !.TraceContext =
                                    MapPut(st.TraceContext, key, StringValue(keyval[2]))]

\* one iteration of the loop over the segments
ScanSegment(st, segment) ==
    LET keyval == SplitN2(segment, "=")
    IN  IF Len(keyval) < 2 THEN st
        ELSE LET key == ToLower(keyval[1])
             IN  IF key = KeySelf THEN [st EXCEPT !.ParentID = keyval[2]]
                 ELSE IF key = KeyRoot THEN [st EXCEPT !.TraceID = keyval[2]]
                 ELSE IF key = KeyParent THEN [st EXCEPT !.parent = keyval[2]]
                 ELSE IF key = KeyGrandParent THEN [st EXCEPT !.grandParent = keyval[2]]
                 ELSE [st EXCEPT !.TraceContext =
                                    MapPut(st.TraceContext, keyval[1], StringValue(keyval[2]))]

RECURSIVE ScanSegments(_, _)
ScanSegments(st, segments) ==
    IF segments = <<>> THEN st
    ELSE ScanSegments(ScanSegment(st, Head(segments)), Tail(segments))

\* Reconcile with the load-balancer case preferring a grandParent of the header
Reconcile_GrandFirst(st) ==
    IF st.ParentID = <<>> /\ st.parent # <<>> /\ st.grandParent # <<>>
    THEN [st EXCEPT !.ParentID = st.parent, !.GrandParentID = st.grandParent]
    ELSE IF st.ParentID = <<>> /\ st.parent # <<>>
    THEN [st EXCEPT !.ParentID = st.parent]
    ELSE IF st.ParentID # <<>> /\ st.parent # <<>>
    THEN [st EXCEPT !.GrandParentID =
                       IF st.grandParent # <<>> THEN st.grandParent ELSE st.parent]
    ELSE st

\* Reconcile with the two-hop case falling into the one-hop case
Reconcile_NoGrand(st) ==
    IF st.ParentID = <<>> /\ st.parent # <<>>
    THEN [st EXCEPT !.ParentID = st.parent]
    ELSE IF st.ParentID # <<>> /\ st.parent # <<>>
    THEN [st EXCEPT !.GrandParentID = st.parent]
    ELSE st

\* Reconcile without the one-hop case
Reconcile_NoSingleHop(st) ==
    IF st.ParentID = <<>> /\ st.parent # <<>> /\ st.grandParent # <<>>
    THEN [st EXCEPT !.ParentID = st.parent, !.GrandParentID = st.grandParent]
    ELSE IF st.ParentID # <<>> /\ st.parent # <<>>
    THEN [st EXCEPT !.GrandParentID = st.parent]
    ELSE st

\* the switch on ParentID, parent and grandParent
Reconcile(st) ==
    IF st.ParentID = <<>> /\ st.parent # <<>> /\ st.grandParent # <<>>
    THEN [st EXCEPT !.ParentID = st.parent, !.GrandParentID = st.grandParent]
    ELSE IF st.ParentID = <<>> /\ st.parent # <<>>
    THEN [st EXCEPT !.ParentID = st.parent]
    ELSE IF st.ParentID # <<>> /\ st.parent # <<>>
    THEN [st EXCEPT !.GrandParentID = st.parent]
    ELSE st

\* RootFallback overwriting a ParentID that is already set
RootFallback_Always(st) ==
    IF st.TraceID # <<>>
    THEN [st EXCEPT !.ParentID = st.TraceID]
    ELSE st

\* a header with only a Root: the trace id is the parent id as well
RootFallback(st) ==
    IF st.TraceID # <<>> /\ st.ParentID = <<>>
    THEN [st EXCEPT !.ParentID = st.TraceID]
    ELSE st

\* the PropagationContext the locals end in
ContextOf(st) ==
    [TraceID |-> st.TraceID, ParentID |-> st.ParentID,
     GrandParentID |-> st.GrandParentID, TraceContext |-> st.TraceContext]

\* ReturnOf with the error path handing the half-filled context back as well
ReturnOf_KeepsContext(p, h) ==
    IF ~IsValid(p)
    THEN [prop |-> <<p>>, err |-> <<PropagationError(ErrPrefix \o h)>>]
    ELSE [prop |-> <<p>>, err |-> <<>>]

\* the (prop, err) pair of the two return statements
ReturnOf(p, h) ==
    IF ~IsValid(p)
    THEN [prop |-> <<>>, err |-> <<PropagationError(ErrPrefix \o h)>>]
    ELSE [prop |-> <<p>>, err |-> <<>>]

UnmarshalAmazonTraceContext(h) ==
    ReturnOf(ContextOf(RootFallback(Reconcile(ScanSegments(ScanStart, Split(h, ";"))))), h)

(***************************************************************************)
(* MarshalAmazonTraceContext                                               *)
(***************************************************************************)
\* elems: one "k=v" per key, in the order the range loop visits the keys
RECURSIVE Elems(_, _)
Elems(tc, order) ==
    IF order = <<>> THEN <<>>
    ELSE <<Head(order) \o <<"=">> \o FormatV(tc[Head(order)])>> \o Elems(tc, Tail(order))

\* MarshalAmazonTraceContext without the test on GrandParentID
MarshalAmazonTraceContext_AlwaysGrand(p, order) ==
    IF p = <<>> THEN <<>>
    ELSE LET c == p[1]
             h0 == <<"R","o","o","t","=">> \o c.TraceID
                     \o <<";","P","a","r","e","n","t","=">> \o c.ParentID
             h1 == h0 \o <<";","G","r","a","n","d","P","a","r","e","n","t","=">>
                      \o c.GrandParentID
         IN  IF Cardinality(DOMAIN c.TraceContext) # 0
             THEN h1 \o <<";">> \o Join(Elems(c.TraceContext, order), <<";">>)
             ELSE h1

\* p is the pointer (nil or one context); order is the range loop's key order
MarshalAmazonTraceContext(p, order) ==
    IF p = <<>> THEN <<>>
    ELSE LET c == p[1]
             h0 == <<"R","o","o","t","=">> \o c.TraceID
                     \o <<";","P","a","r","e","n","t","=">> \o c.ParentID
             h1 == IF c.GrandParentID # <<>>
                   THEN h0 \o <<";","G","r","a","n","d","P","a","r","e","n","t","=">>
                           \o c.GrandParentID
                   ELSE h0
         IN  IF Cardinality(DOMAIN c.TraceContext) # 0
             THEN h1 \o <<";">> \o Join(Elems(c.TraceContext, order), <<";">>)
             ELSE h1

\* the orders in which a range loop may visit the keys of a map
KeyOrders(tc) ==
    LET n == Cardinality(DOMAIN tc)
    IN  {o \in [1..n -> DOMAIN tc] : \A i, j \in 1..n : i # j => o[i] # o[j]}

(***************************************************************************)
(* Inbound headers: a header is its segments joined by ";".  A segment is  *)
(* either a key, "=" and a value (eq), or text without "=" (malformed).    *)
(* Every string is such a join: keys hold no "=" and no ";", values and    *)
(* malformed text hold no ";".                                             *)
(***************************************************************************)
KeyValue(k, v) == [k |-> k, eq |-> TRUE, v |-> v]
Malformed(text) == [k |-> text, eq |-> FALSE, v |-> <<>>]

SegText(sg) == IF sg.eq THEN sg.k \o <<"=">> \o sg.v ELSE sg.k

Render(ss) == Join([i \in 1..Len(ss) |-> SegText(ss[i])], <<";">>)

MalformedPool == {Malformed(<<>>), Malformed(<<"R","o","o","t">>)}

SegPool ==
    { KeyValue(<<"R","o","o","t">>, <<"a">>),
      KeyValue(<<"r","o","o","t">>, <<>>),
      KeyValue(<<"S","e","l","f">>, <<"b">>),
      KeyValue(<<"S","E","L","F">>, <<>>),
      KeyValue(<<"P","a","r","e","n","t">>, <<"c">>),
      KeyValue(<<"p","a","r","e","n","t">>, <<>>),
      KeyValue(<<"G","r","a","n","d","P","a","r","e","n","t">>, <<"d">>),
      KeyValue(<<"g","r","a","n","d","p","a","r","e","n","t">>, <<>>),
      KeyValue(<<"F","o","o">>, <<"a","=","b">>) } \cup MalformedPool

\* more extension fields: a key twice, and a key that differs in case only
ExtensionPool ==
    { KeyValue(<<"F","o","o">>, <<>>),
      KeyValue(<<"f","o","o">>, <<"c">>) }

Headers(pool, n) == UNION {[1..m -> pool] : m \in 1..n}

NoResult == [prop |-> <<>>, err |-> <<>>]

InsertAt(ss, pos, sg) == SubSeq(ss, 1, pos) \o <<sg>> \o SubSeq(ss, pos + 1, Len(ss))

(***************************************************************************)
(* Callers of UnmarshalAmazonTraceContext                                  *)
(***************************************************************************)
InitUnmarshal ==
    /\ pc = "call"
    /\ segs \in Headers(SegPool, MaxSegs)
    /\ header = Render(segs)
    /\ result = NoResult
    /\ altSegs = <<>> /\ altHeader = <<>> /\ altResult = NoResult
    /\ prop = <<>> /\ wire = <<>> /\ back = NoResult

UnmarshalHeader ==
    /\ pc = "call"
    /\ result' = UnmarshalAmazonTraceContext(header)
    /\ pc' = "returned"
    /\ UNCHANGED <<segs, header, altSegs, altHeader, altResult, prop, wire, back>>

\* a second call, on the header with one more segment that has no "="
UnmarshalWithMalformed ==
    /\ pc = "returned"
    /\ \E m \in MalformedPool, pos \in 0..Len(segs) :
          /\ altSegs' = InsertAt(segs, pos, m)
          /\ altHeader' = Render(altSegs')
          /\ altResult' = UnmarshalAmazonTraceContext(altHeader')
    /\ pc' = "malformed"
    /\ UNCHANGED <<segs, header, result, prop, wire, back>>

\* a second call, on the header with the key of one segment in another case
UnmarshalRecased ==
    /\ pc = "returned"
    /\ \E i \in 1..Len(segs), up \in BOOLEAN :
          /\ segs[i].eq
          /\ altSegs' = [segs EXCEPT ![i].k = IF up THEN ToUpper(@) ELSE ToLower(@)]
          /\ altSegs' # segs
          /\ altHeader' = Render(altSegs')
          /\ altResult' = UnmarshalAmazonTraceContext(altHeader')
    /\ pc' = "recased"
    /\ UNCHANGED <<segs, header, result, prop, wire, back>>

NextUnmarshal == UnmarshalHeader

SpecUnmarshal == InitUnmarshal /\ [][NextUnmarshal]_vars

\* the same caller, followed by a second call on a related header
InitVariant ==
    /\ pc = "call"
    /\ segs \in Headers(SegPool \cup ExtensionPool, MaxAltSegs)
    /\ header = Render(segs)
    /\ result = NoResult
    /\ altSegs = <<>> /\ altHeader = <<>> /\ altResult = NoResult
    /\ prop = <<>> /\ wire = <<>> /\ back = NoResult

NextVariant == UnmarshalHeader \/ UnmarshalWithMalformed \/ UnmarshalRecased

SpecVariant == InitVariant /\ [][NextVariant]_vars

(***************************************************************************)
(* Outbound contexts, and the caller that marshals one and parses the      *)
(* header it got                                                           *)
(***************************************************************************)
TraceIdPool == {<<>>, <<"a">>, <<"a",";","S","e","l","f","=","b">>}
ParentIdPool == {<<>>, <<"b">>, <<"b","=","c">>}
GrandParentIdPool == {<<>>, <<"c">>, <<"c",";","d">>}

KeyPool ==
    { <<"F","o","o">>, <<"b","a","r">>, <<"S","E","L","F">>,
      <<"k",";","x">>, <<"k","=","x">> }

ValuePool ==
    { StringValue(<<"v">>), StringValue(<<"a","=","b">>),
      StringValue(<<"a",";","b">>), IntValue(32) }

Maps(n) == UNION {[K -> ValuePool] : K \in {S \in SUBSET KeyPool : Cardinality(S) <= n}}

Contexts ==
    { [TraceID |-> t, ParentID |-> p, GrandParentID |-> g, TraceContext |-> m] :
        t \in TraceIdPool, p \in ParentIdPool, g \in GrandParentIdPool,
        m \in Maps(MaxEntries) }

InitMarshal ==
    /\ pc = "call"
    /\ prop \in {<<>>} \cup {<<c>> : c \in Contexts}
    /\ wire = <<>> /\ back = NoResult
    /\ segs = <<>> /\ header = <<>> /\ result = NoResult
    /\ altSegs = <<>> /\ altHeader = <<>> /\ altResult = NoResult

MarshalProp ==
    /\ pc = "call"
    /\ \E order \in (IF prop = <<>> THEN {<<>>} ELSE KeyOrders(prop[1].TraceContext)) :
          wire' = MarshalAmazonTraceContext(prop, order)
    /\ pc' = "marshalled"
    /\ UNCHANGED <<segs, header, result, altSegs, altHeader, altResult, prop, back>>

UnmarshalWire ==
    /\ pc = "marshalled"
    /\ back' = UnmarshalAmazonTraceContext(wire)
    /\ pc' = "parsed"
    /\ UNCHANGED <<segs, header, result, altSegs, altHeader, altResult, prop, wire>>

NextMarshal == MarshalProp \/ UnmarshalWire

SpecMarshal == InitMarshal /\ [][NextMarshal]_vars

(***************************************************************************)
(* What a header says, read off its segments                               *)
(***************************************************************************)
RecognizedKeys == {KeySelf, KeyRoot, KeyParent, KeyGrandParent}

Recognized(k) == ToLower(k) \in RecognizedKeys

\* the positions of the segments key=value whose key is name in some casing
Occurrences(ss, name) == {i \in 1..Len(ss) : ss[i].eq /\ ToLower(ss[i].k) = name}

Last(S) == CHOOSE i \in S : \A j \in S : j <= i

\* the value the header gives name: that of its last occurrence, "" when absent
ValueOf(ss, name) ==
    IF Occurrences(ss, name) = {} THEN <<>> ELSE ss[Last(Occurrences(ss, name))].v

AtMostOnce(ss) == \A name \in RecognizedKeys : Cardinality(Occurrences(ss, name)) <= 1

Succeeded(r) == r.err = <<>>

Contains(s, part) ==
    \E i \in 0..(Len(s) - Len(part)) : SubSeq(s, i + 1, i + Len(part)) = part

HasChar(s, c) == \E i \in 1..Len(s) : s[i] = c

\* C1: one of two outcomes: a valid context and no error, or no context and an
\* error whose message holds the header
OneOutcome(r, h) ==
    \/ /\ Len(r.prop) = 1 /\ r.err = <<>>
       /\ r.prop[1].TraceID # <<>> /\ r.prop[1].ParentID # <<>>
    \/ /\ r.prop = <<>> /\ Len(r.err) = 1
       /\ Contains(r.err[1].message, h)

\* C1: whatever the header, UnmarshalAmazonTraceContext returns either a
\* context with non-empty TraceID and ParentID and a nil error, or a nil context
\* and an error whose message contains the header; never a context with an error
C1_ContextOrError == pc = "returned" => OneOutcome(result, header)

\* C1 witness: a header with a non-empty Self and Parent that fails to parse
C1_Witness ==
    /\ pc = "returned"
    /\ ValueOf(segs, KeySelf) # <<>> /\ ValueOf(segs, KeyParent) # <<>>
    /\ result.prop = <<>> /\ result.err # <<>>

\* C9: the parse succeeds exactly when the header has a segment whose key is
\* root in some casing and the last such segment has a non-empty value
C9_SucceedsIffLastRoot ==
    pc = "returned" =>
        (Succeeded(result) <=>
            /\ Occurrences(segs, KeyRoot) # {}
            /\ segs[Last(Occurrences(segs, KeyRoot))].v # <<>>)

\* C9 witness: a non-empty Root overwritten by a later empty one fails, in spite
\* of a non-empty Self and Parent
C9_Witness ==
    /\ pc = "returned"
    /\ \E i, j \in Occurrences(segs, KeyRoot) : i < j /\ segs[i].v # <<>> /\ segs[j].v = <<>>
    /\ ValueOf(segs, KeyRoot) = <<>>
    /\ ValueOf(segs, KeySelf) # <<>> /\ ValueOf(segs, KeyParent) # <<>>
    /\ ~Succeeded(result)

\* C3: with each recognized key at most once and Root, Self and Parent all
\* non-empty, ParentID is the Self value and GrandParentID the Parent value,
\* with or without a GrandParent segment
C3_LoadBalancer ==
    (/\ pc = "returned"
     /\ AtMostOnce(segs)
     /\ ValueOf(segs, KeyRoot) # <<>>
     /\ ValueOf(segs, KeySelf) # <<>>
     /\ ValueOf(segs, KeyParent) # <<>>)
    => /\ Succeeded(result) /\ Len(result.prop) = 1
       /\ result.prop[1].ParentID = ValueOf(segs, KeySelf)
       /\ result.prop[1].GrandParentID = ValueOf(segs, KeyParent)

\* C3 witness: Root, Self, Parent and a non-empty GrandParent, which is dropped
C3_Witness ==
    /\ pc = "returned"
    /\ AtMostOnce(segs)
    /\ ValueOf(segs, KeyRoot) # <<>> /\ ValueOf(segs, KeySelf) # <<>>
    /\ ValueOf(segs, KeyParent) # <<>> /\ ValueOf(segs, KeyGrandParent) # <<>>
    /\ Succeeded(result)
    /\ result.prop[1].GrandParentID # ValueOf(segs, KeyGrandParent)

\* C4: with each recognized key at most once, Root and Parent non-empty and Self
\* absent or empty, ParentID is the Parent value and GrandParentID is the
\* GrandParent value, "" when GrandParent is absent or empty
C4_NoLoadBalancer ==
    (/\ pc = "returned"
     /\ AtMostOnce(segs)
     /\ ValueOf(segs, KeyRoot) # <<>>
     /\ ValueOf(segs, KeyParent) # <<>>
     /\ ValueOf(segs, KeySelf) = <<>>)
    => /\ Succeeded(result) /\ Len(result.prop) = 1
       /\ result.prop[1].ParentID = ValueOf(segs, KeyParent)
       /\ result.prop[1].GrandParentID = ValueOf(segs, KeyGrandParent)

\* C4 witness: Root, an empty Self, Parent and a non-empty GrandParent
C4_Witness ==
    /\ pc = "returned"
    /\ AtMostOnce(segs)
    /\ Occurrences(segs, KeySelf) # {} /\ ValueOf(segs, KeySelf) = <<>>
    /\ ValueOf(segs, KeyRoot) # <<>> /\ ValueOf(segs, KeyParent) # <<>>
    /\ ValueOf(segs, KeyGrandParent) # <<>>
    /\ Succeeded(result)
    /\ result.prop[1].GrandParentID = ValueOf(segs, KeyGrandParent)

\* C5: with a non-empty Root and Self and Parent absent or empty, the parse
\* succeeds with ParentID = TraceID = the Root value and an empty GrandParentID,
\* GrandParent segment or not; and a non-empty Self is the ParentID of every
\* successful parse (a key's value is that of its last occurrence)
C5_RootFallback ==
    pc = "returned" =>
        /\ (/\ ValueOf(segs, KeyRoot) # <<>>
            /\ ValueOf(segs, KeySelf) = <<>>
            /\ ValueOf(segs, KeyParent) = <<>>)
           => /\ Succeeded(result) /\ Len(result.prop) = 1
              /\ result.prop[1].TraceID = ValueOf(segs, KeyRoot)
              /\ result.prop[1].ParentID = ValueOf(segs, KeyRoot)
              /\ result.prop[1].GrandParentID = <<>>
        /\ (ValueOf(segs, KeySelf) # <<>> /\ Succeeded(result))
           => result.prop[1].ParentID = ValueOf(segs, KeySelf)

\* C5 witness: a Root and a non-empty GrandParent, no Self and no Parent
C5_Witness ==
    /\ pc = "returned"
    /\ ValueOf(segs, KeyRoot) # <<>>
    /\ Occurrences(segs, KeySelf) = {} /\ Occurrences(segs, KeyParent) = {}
    /\ ValueOf(segs, KeyGrandParent) # <<>>
    /\ Succeeded(result)
    /\ result.prop[1].ParentID = result.prop[1].TraceID

\* C7: a segment without "=" added anywhere in a header changes neither whether
\* the parse succeeds nor, when it does, the context returned
C7_MalformedSkipped ==
    pc = "malformed" =>
        /\ Succeeded(result) <=> Succeeded(altResult)
        /\ Succeeded(result) => altResult.prop = result.prop

\* C7 witness: the word Root alone, added after the Root segment of a header
\* that parses and carries an extension field
C7_Witness ==
    /\ pc = "malformed"
    /\ Succeeded(result) /\ Succeeded(altResult)
    /\ DOMAIN result.prop[1].TraceContext # {}
    /\ \E i \in 1..Len(altSegs) :
          /\ altSegs[i] = Malformed(<<"R","o","o","t">>)
          /\ i > Last(Occurrences(segs, KeyRoot))
          /\ Len(altSegs) = Len(segs) + 1

\* the positions of the segments key=value whose key is not recognized
Extensions(ss) == {i \in 1..Len(ss) : ss[i].eq /\ ~Recognized(ss[i].k)}

\* TraceContext holds every extension segment under its key, with its value
StoresEach(r, ss) ==
    Succeeded(r) =>
        /\ DOMAIN r.prop[1].TraceContext = {ss[i].k : i \in Extensions(ss)}
        /\ \A i \in Extensions(ss) :
              r.prop[1].TraceContext[ss[i].k] = StringValue(ss[i].v)

\* TraceContext holds every extension key, with the value of its last segment
StoresLast(r, ss) ==
    Succeeded(r) =>
        /\ DOMAIN r.prop[1].TraceContext = {ss[i].k : i \in Extensions(ss)}
        /\ \A i \in Extensions(ss) :
              (\A j \in Extensions(ss) : ss[j].k = ss[i].k => j <= i)
              => r.prop[1].TraceContext[ss[i].k] = StringValue(ss[i].v)

\* a recognized key written in another case: the same outcome, the same context
RecasedAlike ==
    (pc = "recased" /\ \A i \in 1..Len(segs) : altSegs[i] # segs[i] => Recognized(segs[i].k))
    => /\ Succeeded(result) <=> Succeeded(altResult)
       /\ Succeeded(result) => altResult.prop = result.prop

\* C8 as stated: recognized keys are recognized in every casing, and a
\* successful parse stores each segment that has "=" and an unrecognized key
\* under its key as written, with the text after its first "="
C8_EverySegmentStored ==
    /\ RecasedAlike
    /\ pc \in {"returned", "malformed", "recased"} => StoresEach(result, segs)
    /\ pc \in {"malformed", "recased"} => StoresEach(altResult, altSegs)

\* C8 amended: recognized keys are recognized in every casing, and a successful
\* parse stores exactly the unrecognized keys of the segments that have "=",
\* each as written, with the text after the first "=" of the last segment that
\* has that key
C8_LastSegmentStored ==
    /\ RecasedAlike
    /\ pc \in {"returned", "malformed", "recased"} => StoresLast(result, segs)
    /\ pc \in {"malformed", "recased"} => StoresLast(altResult, altSegs)

\* C8 witness: a recognized key recased in a header that parses and has the same
\* extension key twice, the stored value holding a "="
C8_Witness ==
    /\ pc = "recased"
    /\ \E i \in 1..Len(segs) : altSegs[i] # segs[i] /\ Recognized(segs[i].k)
    /\ Succeeded(result) /\ Succeeded(altResult)
    /\ \E i, j \in Extensions(segs) :
          /\ i < j /\ segs[i].k = segs[j].k /\ segs[i].v # segs[j].v
          /\ ToLower(segs[j].k) # segs[j].k
          /\ HasChar(segs[j].v, "=")
          /\ altResult.prop[1].TraceContext[segs[j].k] = StringValue(segs[j].v)

(***************************************************************************)
(* Marshalling, and the round trip                                         *)
(***************************************************************************)
Marshalled == pc \in {"marshalled", "parsed"}

StartsWith(s, pre) == Len(s) >= Len(pre) /\ SubSeq(s, 1, Len(pre)) = pre

Drop(s, n) == SubSeq(s, n + 1, Len(s))

EntryText(tc, k) == <<";">> \o k \o <<"=">> \o FormatV(tc[k])

\* rest is the entries of keys, each once, in some order, and nothing else
RECURSIVE EntriesOnce(_, _, _)
EntriesOnce(rest, tc, keys) ==
    IF keys = {} THEN rest = <<>>
    ELSE \E k \in keys :
            /\ StartsWith(rest, EntryText(tc, k))
            /\ EntriesOnce(Drop(rest, Len(EntryText(tc, k))), tc, keys \ {k})

WireShape(w, c) ==
    LET start == <<"R","o","o","t","=">> \o c.TraceID
                   \o <<";","P","a","r","e","n","t","=">> \o c.ParentID
        grand == IF c.GrandParentID # <<>>
                 THEN <<";","G","r","a","n","d","P","a","r","e","n","t","=">> \o c.GrandParentID
                 ELSE <<>>
    IN  /\ StartsWith(w, start \o grand)
        /\ EntriesOnce(Drop(w, Len(start \o grand)), c.TraceContext, DOMAIN c.TraceContext)

\* no ";"-separated segment of w is Self=..., in any casing
NoSelfSegment(w) ==
    \A i \in 1..Len(Split(w, ";")) :
        LET keyval == SplitN2(Split(w, ";")[i], "=")
        IN  Len(keyval) = 2 => ToLower(keyval[1]) # KeySelf

\* nothing in c can be read as a Self segment: no ";" in an ID, a key or a
\* printed value, no "=" in a key, and no key that is self in some casing
SuppliesNoSelf(c) ==
    /\ ~HasChar(c.TraceID, ";") /\ ~HasChar(c.ParentID, ";") /\ ~HasChar(c.GrandParentID, ";")
    /\ \A k \in DOMAIN c.TraceContext :
          /\ ~HasChar(k, ";") /\ ~HasChar(k, "=") /\ ToLower(k) # KeySelf
          /\ ~HasChar(FormatV(c.TraceContext[k]), ";")

\* C6 as stated: nil gives "", and a context gives Root and Parent, GrandParent
\* exactly when it is non-empty, then every TraceContext entry once in some
\* order and nothing else; and no segment of the output is a Self segment
C6_NeverSelf ==
    Marshalled =>
        IF prop = <<>> THEN wire = <<>>
        ELSE WireShape(wire, prop[1]) /\ NoSelfSegment(wire)

\* C6 amended: nil gives "", and a context gives Root and Parent, GrandParent
\* exactly when it is non-empty, then every TraceContext entry once in some
\* order and nothing else; the output has a Self segment only if the context
\* supplies it: a key that is self in some casing or holds "=" or ";", or an ID
\* or a value that holds ";"
C6_SelfOnlyFromContext ==
    Marshalled =>
        IF prop = <<>> THEN wire = <<>>
        ELSE /\ WireShape(wire, prop[1])
             /\ SuppliesNoSelf(prop[1]) => NoSelfSegment(wire)

\* C6 witness: a context with a GrandParentID and two entries, one of them an
\* int, that supplies no Self, marshalled
C6_Witness ==
    /\ pc = "marshalled"
    /\ prop # <<>>
    /\ prop[1].GrandParentID # <<>>
    /\ SuppliesNoSelf(prop[1])
    /\ Cardinality(DOMAIN prop[1].TraceContext) = 2
    /\ \E k \in DOMAIN prop[1].TraceContext : prop[1].TraceContext[k].t = "int"
    /\ wire # <<>>

EmptyExtras(c) == DOMAIN c.TraceContext = {} /\ c.GrandParentID = <<>>

SameIds(r, c) ==
    /\ Succeeded(r) /\ Len(r.prop) = 1
    /\ r.prop[1].TraceID = c.TraceID
    /\ r.prop[1].ParentID = c.ParentID

\* C2 as stated: every context with non-empty TraceID and ParentID, an empty
\* TraceContext and an empty GrandParentID parses back from its header with the
\* same TraceID and ParentID
C2_RoundTripAnyIds ==
    (/\ pc = "parsed" /\ prop # <<>>
     /\ prop[1].TraceID # <<>> /\ prop[1].ParentID # <<>>
     /\ EmptyExtras(prop[1]))
    => SameIds(back, prop[1])

\* C2 amended: every such context whose TraceID and ParentID hold no ";" parses
\* back from its header with the same TraceID and ParentID
C2_RoundTripPlainIds ==
    (/\ pc = "parsed" /\ prop # <<>>
     /\ prop[1].TraceID # <<>> /\ prop[1].ParentID # <<>>
     /\ EmptyExtras(prop[1])
     /\ ~HasChar(prop[1].TraceID, ";") /\ ~HasChar(prop[1].ParentID, ";"))
    => SameIds(back, prop[1])

\* C2 witness: such a context, its ParentID holding a "=", parsed back
C2_Witness ==
    /\ pc = "parsed" /\ prop # <<>>
    /\ prop[1].TraceID # <<>> /\ ~HasChar(prop[1].TraceID, ";")
    /\ HasChar(prop[1].ParentID, "=")
    /\ EmptyExtras(prop[1])
    /\ Succeeded(back) /\ back.prop[1].ParentID = prop[1].ParentID

\* the contexts C10 is about
RoundTrippable(c) ==
    /\ c.TraceID # <<>> /\ c.ParentID # <<>>
    /\ ~HasChar(c.TraceID, ";") /\ ~HasChar(c.ParentID, ";") /\ ~HasChar(c.GrandParentID, ";")
    /\ \A k \in DOMAIN c.TraceContext :
          /\ c.TraceContext[k].t = "string"
          /\ ~HasChar(c.TraceContext[k].s, ";")
          /\ ~HasChar(k, ";") /\ ~HasChar(k, "=") /\ ~Recognized(k)

\* C10: a valid context with no ";" in its IDs, string values with no ";" and
\* keys with no ";" or "=" that are not recognized parses back, whatever the
\* order of its entries in the header, equal in TraceID, ParentID,
\* GrandParentID and TraceContext
C10_FullRoundTrip ==
    (pc = "parsed" /\ prop # <<>> /\ RoundTrippable(prop[1]))
    => Succeeded(back) /\ back.prop = prop

\* C10 witness: such a context with a GrandParentID and two entries, one value
\* holding a "=", parsed back from the header that puts bar after Foo
C10_Witness ==
    /\ pc = "parsed" /\ prop # <<>> /\ RoundTrippable(prop[1])
    /\ prop[1].GrandParentID # <<>>
    /\ Cardinality(DOMAIN prop[1].TraceContext) = 2
    /\ \E k \in DOMAIN prop[1].TraceContext : HasChar(prop[1].TraceContext[k].s, "=")
    /\ \E i \in 1..Len(wire) : SubSeq(wire, i, Len(wire)) = EntryText(prop[1].TraceContext, <<"b","a","r">>)
    /\ Succeeded(back)

====
